---- MODULE Spec2Model ----
(***************************************************************************)
(* Payroll-ES: the preflight / missing-data pipeline of                    *)
(* payroll_pipeline.py (enrich_region_config, detect_missing,              *)
(* resolve_missing, call_gpt5_compute_payroll) and the batch driver of     *)
(* batch_run.py (main).                                                    *)
(*                                                                         *)
(* JSON values are tagged records [k, n, s]: k is the kind, n the number   *)
(* in hundredths (1.50 is 150, 2025 is 202500; a bool is 0 or 1), s the    *)
(* string.  Python's None is Null; a key that the mapping does not hold is *)
(* Absent (dict.get gives None for it, and both are falsy).  Strings are   *)
(* written in ASCII (Pais Vasco for the source's accented spelling).       *)
(***************************************************************************)
EXTENDS Integers, Sequences, FiniteSets, TLC

VARIABLES
    \* call_gpt5_compute_payroll, one invocation
    input_payload,       \* the caller's raw document
    schema_ok,           \* whether input_payload satisfies PAYROLL_INPUT_SCHEMA
    missing_policy,      \* "ask" | "default" | "fail"
    pc,                  \* position inside call_gpt5_compute_payroll
    enriched,            \* the working copy (local `enriched`)
    missing,             \* detect_missing's gap list
    idx,                 \* resolve_missing: number of gaps already handled
    preflight_warnings,  \* resolve_missing's warnings
    pre_copy,            \* the working copy as it was when resolve_missing was entered
    error,               \* the exception that ended the call: [kind, names]
    sent,                \* the documents handed to client.responses.create
    validations,         \* passed validate_with_schema calls on the input schema
    remote_outputs,      \* the outputs the remote service may answer with
    resp_output,         \* resp.output
    output_obj,          \* the extracted payload
    \* batch_run.main
    args,                \* [workers, missing_policy]
    records,             \* the parsed (line_num, obj) records
    fut,                 \* per record: the state of its process_record call
    results,             \* sequence of record indexes
    errors,              \* sequence of record indexes
    main_pc,             \* position of main
    exit_status          \* sys.exit code (0 when main returns)

pipeVars == <<input_payload, schema_ok, missing_policy, pc, enriched, missing, idx,
              preflight_warnings, pre_copy, error, sent, validations,
              remote_outputs, resp_output, output_obj>>
batchVars == <<args, records, fut, results, errors, main_pc, exit_status>>
vars == <<input_payload, schema_ok, missing_policy, pc, enriched, missing, idx,
          preflight_warnings, pre_copy, error, sent, validations,
          remote_outputs, resp_output, output_obj,
          args, records, fut, results, errors, main_pc, exit_status>>

----------------------------------------------------------------------------
(* JSON values *)

Absent == [k |-> "absent", n |-> 0, s |-> ""]
Null == [k |-> "null", n |-> 0, s |-> ""]
Num(x) == [k |-> "num", n |-> x, s |-> ""]
Str(x) == [k |-> "str", n |-> 0, s |-> x]
Bool(b) == [k |-> "bool", n |-> IF b THEN 1 ELSE 0, s |-> ""]

\* Python truthiness of a value (`not x`, `if x`): None, 0, 0.0, "" and False are falsy.
Truthy(v) ==
    \/ v.k = "num" /\ v.n # 0
    \/ v.k = "str" /\ v.s # ""
    \/ v.k = "bool" /\ v.n = 1

\* `value is not None`
IsNotNone(v) == v.k \notin {"absent", "null"}

\* str.lower on the item names the model uses
Lower(s) ==
    CASE s = "Plus Convenio" -> "plus convenio"
      [] s = "PLUS CONVENIO" -> "plus convenio"
      [] s = "Transporte" -> "transporte"
      [] OTHER -> s

\* it.get("name","").lower(): an item without a name counts as ""
ItemName(it) == IF it.name.k = "str" THEN Lower(it.name.s) ELSE ""

----------------------------------------------------------------------------
(* Documents: a mapping of the substructures the pipeline reads; a          *)
(* substructure the document does not hold has present = FALSE.             *)

NoRegionConfig == [present |-> FALSE, ccaa |-> Absent, irpf_regime |-> Absent, notes |-> Absent]
NoCompany == [present |-> FALSE, cnae |-> Absent, atep_tariff_pct |-> Absent]
NoPeriod == [present |-> FALSE, year |-> Absent]
NoTables == [present |-> FALSE, cotization_year |-> Absent, irpf_year |-> Absent]
NoCompensation ==
    [present |-> FALSE, base_salary_cra_code |-> Absent, has_variables |-> FALSE,
     variables |-> <<>>, plus_convenio_amount |-> Absent]
NoWorker == [present |-> FALSE, nif |-> Absent]
NoAgreement == [present |-> FALSE, has_allowances |-> FALSE, allowances |-> <<>>]

EmptyDoc ==
    [region_config |-> NoRegionConfig, company |-> NoCompany, period |-> NoPeriod,
     tables |-> NoTables, compensation |-> NoCompensation, worker |-> NoWorker,
     collective_agreement |-> NoAgreement]

\* a pay item (an allowance of the agreement, or a variable of the compensation)
Item(name, amount) ==
    [name |-> Str(name), amount |-> amount, taxable |-> Absent,
     contributory |-> Absent, cra_code |-> Absent]

----------------------------------------------------------------------------
(* 1) CCAA -> IRPF map *)

AeatRegions ==
    {"Andalucia", "Aragon", "Principado de Asturias", "Illes Balears", "Canarias",
     "Cantabria", "Castilla-La Mancha", "Castilla y Leon", "Cataluna",
     "Comunitat Valenciana", "Extremadura", "Galicia", "Comunidad de Madrid",
     "Region de Murcia", "La Rioja", "Ceuta", "Melilla"}

\* the keys of CCAA_REGION_MAP
RegionKeys == AeatRegions \cup {"Comunidad Foral de Navarra", "Pais Vasco"}

\* CCAA_REGION_MAP[ccaa]["irpf_regime"]
CCAA_REGION_MAP(ccaa) ==
    CASE ccaa = "Comunidad Foral de Navarra" -> "FORAL_NAVARRA"
      [] ccaa = "Pais Vasco" -> "FORAL_PV"
      [] OTHER -> "AEAT"

----------------------------------------------------------------------------
(* 3) Utils: enrich_region_config *)

\* faulty variant: the setdefault of notes is left out
SetDefaultNotesSkipped(rc) == rc

\* rc.setdefault("notes", "")
SetDefaultNotes(rc) ==
    [rc EXCEPT !.notes = IF @ = Absent THEN Str("") ELSE @]

\* if "irpf_regime" not in rc and ccaa in CCAA_REGION_MAP: rc["irpf_regime"] = ...
SetRegime(rc, ccaa) ==
    IF rc.irpf_regime = Absent /\ ccaa.k = "str" /\ ccaa.s \in RegionKeys
    THEN [rc EXCEPT !.irpf_regime = Str(CCAA_REGION_MAP(ccaa.s))]
    ELSE rc

\* json.loads(json.dumps(payload)): a deep copy; the model's documents are values
DeepCopy(payload) == payload

EnrichRegionConfig(payload) ==
    LET data == DeepCopy(payload)
        ccaa == data.region_config.ccaa
    IN  IF ~Truthy(ccaa)
        THEN data
        ELSE [data EXCEPT !.region_config =
                 SetRegime(SetDefaultNotes([@ EXCEPT !.present = TRUE]), ccaa)]

----------------------------------------------------------------------------
(* 4) Preflight & Missing-Policy *)

\* MissingField(path, question, hint, type, enum, default); the question is its
\* text and the value the f-string interpolates (Absent when it has none)
MissingField(path, qtext, qarg, hint, type, enum, default) ==
    [path |-> path, question |-> [text |-> qtext, arg |-> qarg], hint |-> hint,
     type |-> type, enum |-> enum, default |-> default]

\* dict.get(key): None for a key the mapping does not hold
Get(v) == IF v = Absent THEN Null ELSE v

\* any(it.get("name","").lower() == "plus convenio" for it in items)
HasPlusConvenio(items) ==
    \E i \in 1..Len(items) : ItemName(items[i]) = "plus convenio"

PlusConvenioDefault == 0
AtepDefault == 150
IrpfRegimes == <<"AEAT", "FORAL_NAVARRA", "FORAL_PV">>

PlusConvenioGap ==
    MissingField("compensation.plus_convenio_amount",
                 "Importe mensual del 'Plus Convenio' (EUR)?", Absent,
                 "Introduce la cuantia bruta mensual.", "number", <<>>,
                 Num(PlusConvenioDefault))
AtepGap ==
    MissingField("company.atep_tariff_pct",
                 "Sin CNAE: indica tarifa AT/EP (%) p.ej. 1.50", Absent,
                 "Si conoces el CNAE, mejor anadelo y deja vacio aqui.", "number", <<>>,
                 Num(AtepDefault))
CotizationYearGap(period_year) ==
    MissingField("tables.cotization_year",
                 "Ano de tablas de cotizacion a aplicar? (p.ej. ...)", period_year,
                 "Normalmente coincide con el ano del periodo.", "number", <<>>,
                 period_year)
IrpfYearGap(period_year) ==
    MissingField("tables.irpf_year",
                 "Ano de tablas IRPF a aplicar? (p.ej. ...)", period_year,
                 "AEAT o forales del ejercicio.", "number", <<>>, period_year)
CraGap ==
    MissingField("compensation.base_salary_cra_code",
                 "Codigo CRA para salario base (p.ej. C01):", Absent,
                 "Si no sabes, usa C01.", "string", <<>>, Str("C01"))
NifGap ==
    MissingField("worker.nif",
                 "NIF del trabajador (formato 12345678Z). Dejalo vacio si no aplica:",
                 Absent, "No afecta al calculo pero si a trazabilidad.", "string", <<>>,
                 Str("NO-INFORMADO"))
RegimeGap ==
    MissingField("region_config.irpf_regime",
                 "Regimen IRPF (AEAT | FORAL_NAVARRA | FORAL_PV):", Absent,
                 "Por Cataluna: AEAT.", "enum", IrpfRegimes, Str("AEAT"))

If(cond, gap) == IF cond THEN <<gap>> ELSE <<>>

\* rule 1: Plus Convenio among the allowances, none among compensation.variables
PlusRule(payload) ==
    /\ HasPlusConvenio(payload.collective_agreement.allowances)
    /\ ~HasPlusConvenio(payload.compensation.variables)

\* rule 2: neither CNAE nor an explicit AT/EP tariff
AtepRule(payload) ==
    /\ ~Truthy(payload.company.cnae)
    /\ ~Truthy(payload.company.atep_tariff_pct)

\* rules 3 to 7: `if not <mapping>.get(<field>)`
NotSet(v) == ~Truthy(v)

\* detect_missing: the gap list, and the payload after the two setdefault calls
DetectMissing(payload) ==
    LET period_year == Get(payload.period.year)
        after == [payload EXCEPT !.company.present = TRUE, !.tables.present = TRUE]
    IN  [payload |-> after,
         missing |->
               If(PlusRule(payload), PlusConvenioGap)
            \o If(AtepRule(payload), AtepGap)
            \o If(NotSet(payload.tables.cotization_year), CotizationYearGap(period_year))
            \o If(NotSet(payload.tables.irpf_year), IrpfYearGap(period_year))
            \o If(NotSet(payload.compensation.base_salary_cra_code), CraGap)
            \o If(NotSet(payload.worker.nif), NifGap)
            \o If(NotSet(payload.region_config.irpf_regime), RegimeGap)]

\* path.split("."), on the paths detect_missing gives
Split(path) ==
    CASE path = "compensation.plus_convenio_amount" -> <<"compensation", "plus_convenio_amount">>
      [] path = "company.atep_tariff_pct" -> <<"company", "atep_tariff_pct">>
      [] path = "tables.cotization_year" -> <<"tables", "cotization_year">>
      [] path = "tables.irpf_year" -> <<"tables", "irpf_year">>
      [] path = "compensation.base_salary_cra_code" -> <<"compensation", "base_salary_cra_code">>
      [] path = "worker.nif" -> <<"worker", "nif">>
      [] path = "region_config.irpf_regime" -> <<"region_config", "irpf_regime">>

\* _set_by_path on a two-segment path: the intermediate mapping is created when the
\* document does not hold it, then the last segment is assigned
SetByPath(d, path_parts, value) ==
    [d EXCEPT ![path_parts[1]] =
        [@ EXCEPT !["present"] = TRUE, ![path_parts[2]] = value]]

\* str.strip on the console lines the model uses
Strip(line) ==
    CASE line = " " -> ""
      [] line = " FORAL_PV " -> "FORAL_PV"
      [] OTHER -> line

\* float(value_str.replace(",", ".")): the number in hundredths, -1 for ValueError
ParseFloat(value_str) ==
    CASE value_str = "0" -> 0
      [] value_str = "1,5" -> 150
      [] value_str = "1.5" -> 150
      [] value_str = "2025" -> 202500
      [] OTHER -> -1

InSeq(x, seq) == \E i \in 1..Len(seq) : seq[i] = x

\* _parse_input: [ok, value]
ParseInput(value_str, mf) ==
    IF mf.type = "number"
    THEN [ok |-> ParseFloat(value_str) >= 0, value |-> Num(ParseFloat(value_str))]
    ELSE IF mf.type = "enum"
    THEN LET v == Strip(value_str)
         IN  [ok |-> ~(Len(mf.enum) > 0 /\ ~InSeq(v, mf.enum)), value |-> Str(v)]
    ELSE [ok |-> TRUE, value |-> Str(Strip(value_str))]

\* one warning of resolve_missing: its text, the gap's path and the value
Warning(text, path, value) == [text |-> text, path |-> path, value |-> value]

\* resolve_missing, policy ask, lines 242-252: the value taken for gap m when the
\* console answers `line`; status is "ok", or the ValueError raised
AskValue(m, line) ==
    LET raw == Strip(line)
        parsed == ParseInput(raw, m)
    IN  IF raw = "" /\ IsNotNone(m.default)
        THEN [status |-> "ok", value |-> m.default,
              warnings |-> <<Warning("Usado valor por defecto en", m.path, m.default)>>]
        ELSE IF raw = ""
        THEN [status |-> "mandatory", value |-> Null, warnings |-> <<>>]
        ELSE IF parsed.ok
        THEN [status |-> "ok", value |-> parsed.value, warnings |-> <<>>]
        ELSE [status |-> "parse", value |-> Null, warnings |-> <<>>]

\* resolve_missing, policy default, lines 254-255
DefaultValue(m) ==
    [status |-> "ok", value |-> m.default,
     warnings |-> <<Warning("Valor por defecto aplicado en", m.path, m.default)>>]

NewPlusConvenio ==
    [name |-> Str("Plus Convenio"), amount |-> Absent, taxable |-> Bool(TRUE),
     contributory |-> Bool(TRUE), cra_code |-> Str("C02")]

\* the index of the first item named plus convenio, 0 when there is none
FindPlusConvenio(items) ==
    IF HasPlusConvenio(items)
    THEN CHOOSE i \in 1..Len(items) :
            /\ ItemName(items[i]) = "plus convenio"
            /\ \A j \in 1..(i - 1) : ItemName(items[j]) # "plus convenio"
    ELSE 0

\* float(value) if value is not None else 0.0
AmountOf(value) == IF IsNotNone(value) THEN Num(value.n) ELSE Num(0)

\* resolve_missing, lines 258-268: the value goes to the Plus Convenio item of
\* compensation.variables, which is appended when the list has none
SetPlusConvenio(payload, value) ==
    LET vars_ == payload.compensation.variables
        at == FindPlusConvenio(vars_)
        list == IF at = 0 THEN Append(vars_, NewPlusConvenio) ELSE vars_
        pos == IF at = 0 THEN Len(list) ELSE at
    IN  [payload EXCEPT !.compensation.present = TRUE,
                        !.compensation.has_variables = TRUE,
                        !.compensation.variables =
                            [list EXCEPT ![pos].amount = AmountOf(value)]]

\* faulty variant: no special case, every value goes to its literal path
ApplyValueLiteral(payload, m, value) == SetByPath(payload, Split(m.path), value)

\* resolve_missing, lines 257-270: one gap's value applied to the document
ApplyValue(payload, m, value) ==
    IF m.path = "compensation.plus_convenio_amount"
    THEN SetPlusConvenio(payload, value)
    ELSE SetByPath(payload, Split(m.path), value)

\* names = [m.path for m in missing]
Paths(gaps) == [i \in 1..Len(gaps) |-> gaps[i].path]

----------------------------------------------------------------------------
(* The remote service's answer: resp.output is a sequence of items, an item   *)
(* has a type and a content, a content part a type, a parsed payload and a    *)
(* text.  Payloads are numbered from 1; parsed = 0 is None, text = 0 is a     *)
(* text json.loads rejects.                                                   *)

Part(type, parsed, text) == [type |-> type, parsed |-> parsed, text |-> text]
OutputItem(type, content) == [type |-> type, content |-> content]

NoObj == [id |-> 0, warnings |-> <<>>]

\* getattr(c, "parsed", None) or json.loads(c.text): [ok, obj]
PartPayload(c) ==
    IF c.parsed # 0 THEN [ok |-> TRUE, obj |-> [id |-> c.parsed, warnings |-> <<>>]]
    ELSE IF c.text # 0 THEN [ok |-> TRUE, obj |-> [id |-> c.text, warnings |-> <<>>]]
    ELSE [ok |-> FALSE, obj |-> NoObj]

\* the inner loop, lines 306-309: the first output_text part of the content, 0 if none
FirstTextPart(content) ==
    IF \E i \in 1..Len(content) : content[i].type = "output_text"
    THEN CHOOSE i \in 1..Len(content) :
            /\ content[i].type = "output_text"
            /\ \A j \in 1..(i - 1) : content[j].type # "output_text"
    ELSE 0

\* the outer loop, lines 304-309, from item i on with output_obj = acc: the inner
\* break leaves the outer loop running, a json.loads error ends the call
RECURSIVE ExtractFrom(_, _, _)
ExtractFrom(output, i, acc) ==
    IF i > Len(output) THEN [ok |-> TRUE, obj |-> acc]
    ELSE LET item == output[i]
             at == IF item.type = "message" THEN FirstTextPart(item.content) ELSE 0
         IN  IF at = 0 THEN ExtractFrom(output, i + 1, acc)
             ELSE IF ~PartPayload(item.content[at]).ok THEN [ok |-> FALSE, obj |-> NoObj]
             ELSE ExtractFrom(output, i + 1, PartPayload(item.content[at]).obj)

ExtractOutput(output) == ExtractFrom(output, 1, NoObj)

\* out_w = output_obj.setdefault("warnings", []); out_w.extend(preflight_warnings)
Annotate(obj, warnings) ==
    IF Len(warnings) > 0 THEN [obj EXCEPT !.warnings = @ \o warnings] ELSE obj

----------------------------------------------------------------------------
(* Inputs *)

MaxPrompts == 2        \* interactive runs: at most this many gaps are prompted for
MaxOutputItems == 2    \* items of one resp.output

Year2025 == Num(202500)

RegionConfigs ==
    {NoRegionConfig,
     [NoRegionConfig EXCEPT !.present = TRUE],
     [NoRegionConfig EXCEPT !.present = TRUE, !.ccaa = Str("")],
     [NoRegionConfig EXCEPT !.present = TRUE, !.ccaa = Str("Pais Vasco")],
     [NoRegionConfig EXCEPT !.present = TRUE, !.ccaa = Str("Atlantis")],
     [present |-> TRUE, ccaa |-> Str("Cataluna"), irpf_regime |-> Str("FORAL_NAVARRA"),
      notes |-> Str("revisado")]}
Companies ==
    {NoCompany,
     [present |-> TRUE, cnae |-> Str("6201"), atep_tariff_pct |-> Absent],
     [present |-> TRUE, cnae |-> Absent, atep_tariff_pct |-> Num(0)],
     [present |-> TRUE, cnae |-> Absent, atep_tariff_pct |-> Num(275)]}
Periods == {NoPeriod, [present |-> TRUE, year |-> Year2025]}
TableSets ==
    {NoTables,
     [present |-> TRUE, cotization_year |-> Year2025, irpf_year |-> Year2025],
     [present |-> TRUE, cotization_year |-> Num(0), irpf_year |-> Year2025]}
Compensation(code, list) ==
    [present |-> TRUE, base_salary_cra_code |-> code, has_variables |-> TRUE,
     variables |-> list, plus_convenio_amount |-> Absent]
Compensations ==
    {NoCompensation,
     Compensation(Str("C01"), <<>>),
     Compensation(Str("C01"), <<Item("plus convenio", Num(5000))>>),
     Compensation(Absent, <<Item("Transporte", Num(3000))>>)}
Workers == {NoWorker, [present |-> TRUE, nif |-> Str("12345678Z")]}
Agreements ==
    {NoAgreement,
     [present |-> TRUE, has_allowances |-> TRUE,
      allowances |-> <<Item("PLUS CONVENIO", Absent)>>],
     [present |-> TRUE, has_allowances |-> TRUE,
      allowances |-> <<Item("Transporte", Absent), Item("Plus Convenio", Absent)>>]}

\* the raw documents a caller may pass
Docs ==
    [region_config : RegionConfigs, company : Companies, period : Periods,
     tables : TableSets, compensation : Compensations, worker : Workers,
     collective_agreement : Agreements]

Policies == {"ask", "default", "fail"}

\* the lines the console may answer a prompt with
ConsoleLines == {"", " ", "0", "1,5", "2025", "FORAL_PV", " FORAL_PV ", "BOGUS"}

\* the items of a resp.output: payload 3 is one the result schema rejects
OutputItems ==
    {OutputItem("reasoning", <<>>),
     OutputItem("message", <<Part("refusal", 0, 0)>>),
     OutputItem("message", <<Part("output_text", 1, 0)>>),
     OutputItem("message", <<Part("refusal", 0, 0), Part("output_text", 0, 2), Part("output_text", 1, 0)>>),
     OutputItem("message", <<Part("output_text", 3, 0)>>),
     OutputItem("message", <<Part("output_text", 0, 0)>>)}

RECURSIVE SeqsUpTo(_, _)
SeqsUpTo(S, n) ==
    IF n = 0 THEN {<<>>}
    ELSE SeqsUpTo(S, n - 1) \cup
         {Append(q, x) : q \in {r \in SeqsUpTo(S, n - 1) : Len(r) = n - 1}, x \in S}

\* every resp.output of at most MaxOutputItems items
Outputs == SeqsUpTo(OutputItems, MaxOutputItems)

\* the payloads PAYROLL_RESULT_SCHEMA accepts
ResultSchemaOk(obj) == obj.id \in {1, 2}

NoError == [kind |-> "", names |-> <<>>]
Raise(kind, names) == [kind |-> kind, names |-> names]

\* resolve_missing, one iteration of the loop of lines 240-270 on gap m: the
\* value is taken per policy (`line` is what the console answers under ask) and
\* applied; status is "ok" or the error raised
ResolveStep(payload, m, policy, line) ==
    LET got == IF policy = "ask" THEN AskValue(m, line) ELSE DefaultValue(m)
    IN  [status |-> got.status,
         payload |-> IF got.status = "ok" THEN ApplyValue(payload, m, got.value) ELSE payload,
         warnings |-> got.warnings]

----------------------------------------------------------------------------
(* 5) call_gpt5_compute_payroll, one step per call it makes *)

\* line 278: validate_with_schema(input_payload, PAYROLL_INPUT_SCHEMA, ...)
ValidateInput ==
    /\ pc = "start"
    /\ IF schema_ok
       THEN /\ pc' = "validated"
            /\ validations' = validations + 1
            /\ error' = error
       ELSE /\ pc' = "error"
            /\ error' = Raise("input_schema", <<>>)
            /\ validations' = validations
    /\ UNCHANGED <<input_payload, schema_ok, missing_policy, enriched, missing, idx,
                   preflight_warnings, pre_copy, sent, remote_outputs, resp_output,
                   output_obj>>
    /\ UNCHANGED batchVars

\* line 279: enriched = enrich_region_config(input_payload)
Enrich ==
    /\ pc = "validated"
    /\ enriched' = EnrichRegionConfig(input_payload)
    /\ pc' = "enriched"
    /\ UNCHANGED <<input_payload, schema_ok, missing_policy, missing, idx,
                   preflight_warnings, pre_copy, error, sent, validations,
                   remote_outputs, resp_output, output_obj>>
    /\ UNCHANGED batchVars

\* line 280: missing = detect_missing(enriched)
Detect ==
    /\ pc = "enriched"
    /\ missing' = DetectMissing(enriched).missing
    /\ enriched' = DetectMissing(enriched).payload
    /\ pre_copy' = DetectMissing(enriched).payload
    /\ pc' = "detected"
    /\ UNCHANGED <<input_payload, schema_ok, missing_policy, idx, preflight_warnings,
                   error, sent, validations, remote_outputs, resp_output, output_obj>>
    /\ UNCHANGED batchVars

\* faulty variant: the fail policy raises after the first gap's default was applied
ResolveEnterMutating ==
    /\ pc = "detected"
    /\ preflight_warnings' = <<>>
    /\ idx' = 0
    /\ IF Len(missing) = 0
       THEN pc' = "resolved" /\ error' = error /\ enriched' = enriched
       ELSE IF missing_policy = "fail"
       THEN /\ pc' = "error" /\ error' = Raise("missing", Paths(missing))
            /\ enriched' = ApplyValue(enriched, missing[1], missing[1].default)
       ELSE pc' = "resolving" /\ error' = error /\ enriched' = enriched
    /\ UNCHANGED <<input_payload, schema_ok, missing_policy, missing,
                   pre_copy, sent, validations, remote_outputs, resp_output, output_obj>>
    /\ UNCHANGED batchVars

\* faulty variant: the fail policy does not raise and the gaps get their defaults
ResolveEnterNoRaise ==
    /\ pc = "detected"
    /\ preflight_warnings' = <<>>
    /\ idx' = 0
    /\ IF Len(missing) = 0
       THEN pc' = "resolved" /\ error' = error
       ELSE pc' = "resolving" /\ error' = error
    /\ UNCHANGED <<input_payload, schema_ok, missing_policy, enriched, missing,
                   pre_copy, sent, validations, remote_outputs, resp_output, output_obj>>
    /\ UNCHANGED batchVars

\* line 281, resolve_missing lines 232-238: nothing to do, or the fail policy raises
ResolveEnter ==
    /\ pc = "detected"
    /\ preflight_warnings' = <<>>
    /\ idx' = 0
    /\ IF Len(missing) = 0
       THEN pc' = "resolved" /\ error' = error
       ELSE IF missing_policy = "fail"
       THEN pc' = "error" /\ error' = Raise("missing", Paths(missing))
       ELSE pc' = "resolving" /\ error' = error
    /\ UNCHANGED <<input_payload, schema_ok, missing_policy, enriched, missing,
                   pre_copy, sent, validations, remote_outputs, resp_output, output_obj>>
    /\ UNCHANGED batchVars

\* resolve_missing lines 240-272: one gap; after the last one the function returns
ResolveGap ==
    /\ pc = "resolving"
    /\ idx < Len(missing)
    /\ \E line \in (IF missing_policy = "ask" THEN ConsoleLines ELSE {""}) :
          LET r == ResolveStep(enriched, missing[idx + 1], missing_policy, line)
          IN  /\ enriched' = r.payload
              /\ preflight_warnings' = preflight_warnings \o r.warnings
              /\ IF r.status = "ok"
                 THEN /\ idx' = idx + 1
                      /\ pc' = IF idx + 1 = Len(missing) THEN "resolved" ELSE "resolving"
                      /\ error' = error
                 ELSE /\ idx' = idx
                      /\ pc' = "error"
                      /\ error' = Raise(r.status, <<missing[idx + 1].path>>)
    /\ UNCHANGED <<input_payload, schema_ok, missing_policy, missing, pre_copy, sent,
                   validations, remote_outputs, resp_output, output_obj>>
    /\ UNCHANGED batchVars

\* lines 283-301: client.responses.create on json.dumps(enriched); the service
\* answers with one of its outputs, or the call raises
Dispatch ==
    /\ pc = "resolved"
    /\ sent' = Append(sent, enriched)
    /\ \/ \E out \in remote_outputs :
             /\ resp_output' = out
             /\ pc' = "dispatched"
             /\ error' = error
       \/ /\ resp_output' = resp_output
          /\ pc' = "error"
          /\ error' = Raise("remote", <<>>)
    /\ UNCHANGED <<input_payload, schema_ok, missing_policy, enriched, missing, idx,
                   preflight_warnings, pre_copy, validations, remote_outputs, output_obj>>
    /\ UNCHANGED batchVars

\* lines 303-311: the payload is taken from resp.output
Extract ==
    /\ pc = "dispatched"
    /\ LET r == ExtractOutput(resp_output)
       IN  IF ~r.ok
           THEN pc' = "error" /\ error' = Raise("json", <<>>) /\ output_obj' = output_obj
           ELSE IF r.obj = NoObj
           THEN pc' = "error" /\ error' = Raise("extract", <<>>) /\ output_obj' = output_obj
           ELSE pc' = "extracted" /\ error' = error /\ output_obj' = r.obj
    /\ UNCHANGED <<input_payload, schema_ok, missing_policy, enriched, missing, idx,
                   preflight_warnings, pre_copy, sent, validations, remote_outputs,
                   resp_output>>
    /\ UNCHANGED batchVars

\* lines 313-318: the warnings are appended, the result validated and returned
Return ==
    /\ pc = "extracted"
    /\ output_obj' = Annotate(output_obj, preflight_warnings)
    /\ IF ResultSchemaOk(output_obj)
       THEN pc' = "returned" /\ error' = error
       ELSE pc' = "error" /\ error' = Raise("result_schema", <<>>)
    /\ UNCHANGED <<input_payload, schema_ok, missing_policy, enriched, missing, idx,
                   preflight_warnings, pre_copy, sent, validations, remote_outputs,
                   resp_output>>
    /\ UNCHANGED batchVars

\* the gaps detect_missing finds in a raw document once enriched
GapsOf(doc) == DetectMissing(EnrichRegionConfig(doc)).missing

NoBatch ==
    /\ args = [workers |-> 1, missing_policy |-> "fail"]
    /\ records = <<>>
    /\ fut = <<>>
    /\ results = <<>>
    /\ errors = <<>>
    /\ main_pc = "idle"
    /\ exit_status = -1

CallInit ==
    /\ input_payload \in Docs
    /\ schema_ok \in BOOLEAN
    /\ missing_policy \in Policies
    /\ missing_policy = "ask" => Len(GapsOf(input_payload)) <= MaxPrompts
    /\ pc = "start"
    /\ enriched = EmptyDoc
    /\ missing = <<>>
    /\ idx = 0
    /\ preflight_warnings = <<>>
    /\ pre_copy = EmptyDoc
    /\ error = NoError
    /\ sent = <<>>
    /\ validations = 0
    /\ resp_output = <<>>
    /\ output_obj = NoObj

\* the outputs the single-call specification lets the service answer with
FewOutputs ==
    {<<>>,
     <<OutputItem("reasoning", <<>>), OutputItem("message", <<Part("output_text", 1, 0)>>)>>,
     <<OutputItem("message", <<Part("output_text", 3, 0)>>)>>,
     <<OutputItem("message", <<Part("output_text", 0, 0)>>)>>}

Init ==
    /\ CallInit
    /\ remote_outputs = FewOutputs
    /\ NoBatch

Next ==
    \/ ValidateInput
    \/ Enrich
    \/ Detect
    \/ ResolveEnter
    \/ ResolveGap
    \/ Dispatch
    \/ Extract
    \/ Return

Spec == Init /\ [][Next]_vars

\* the specification of the extraction: few documents, every output
FullDoc ==
    [region_config |-> [present |-> TRUE, ccaa |-> Str("Pais Vasco"),
                        irpf_regime |-> Absent, notes |-> Absent],
     company |-> [present |-> TRUE, cnae |-> Str("6201"), atep_tariff_pct |-> Absent],
     period |-> [present |-> TRUE, year |-> Year2025],
     tables |-> [present |-> TRUE, cotization_year |-> Year2025, irpf_year |-> Year2025],
     compensation |-> Compensation(Str("C01"), <<>>),
     worker |-> [present |-> TRUE, nif |-> Str("12345678Z")],
     collective_agreement |-> NoAgreement]
\* FullDoc without CNAE or tariff: one gap, company.atep_tariff_pct
GapDoc == [FullDoc EXCEPT !.company = NoCompany]

ExtractInit ==
    /\ CallInit
    /\ input_payload \in {FullDoc, GapDoc}
    /\ remote_outputs = Outputs
    /\ NoBatch

SpecExtract == ExtractInit /\ [][Next]_vars

----------------------------------------------------------------------------
(* batch_run.main: args are the parsed command line, records the parsed     *)
(* lines; fut[i] is the process_record call of record i, which runs         *)
(* call_gpt5_compute_payroll on records[i].                                 *)

MaxRecords == 2
MaxWorkers == 2

BatchRecords ==
    {[obj |-> FullDoc, schema_ok |-> TRUE],
     [obj |-> GapDoc, schema_ok |-> TRUE],
     [obj |-> FullDoc, schema_ok |-> FALSE]}

\* what the service answers a record of the batch with
BatchOutputs ==
    {<<>>, <<OutputItem("message", <<Part("output_text", 1, 0)>>)>>}

Future(st, doc, gaps, n, warnings, res, exc) ==
    [st |-> st, enriched |-> doc, missing |-> gaps, idx |-> n, warnings |-> warnings,
     res |-> res, exc |-> exc, collected |-> FALSE]

Pending == Future("pending", EmptyDoc, <<>>, 0, <<>>, NoObj, "")

\* the submitted calls (fut2meta), one per record
Indexes == DOMAIN fut
Pooled == args.workers > 1
InFlight == {i \in Indexes : fut[i].st \in {"running", "resolving", "ready"}}
Done(i) == fut[i].st \in {"returned", "raised"}

BatchInit ==
    /\ args \in [workers : 0..MaxWorkers, missing_policy : Policies, input_exists : BOOLEAN]
    /\ records \in SeqsUpTo(BatchRecords, MaxRecords)
    /\ fut = <<>>
    /\ results = <<>>
    /\ errors = <<>>
    /\ main_pc = "start"
    /\ exit_status = -1
    /\ input_payload = EmptyDoc
    /\ schema_ok = TRUE
    /\ missing_policy = "fail"
    /\ pc = "idle"
    /\ enriched = EmptyDoc
    /\ missing = <<>>
    /\ idx = 0
    /\ preflight_warnings = <<>>
    /\ pre_copy = EmptyDoc
    /\ error = NoError
    /\ sent = <<>>
    /\ validations = 0
    /\ remote_outputs = BatchOutputs
    /\ resp_output = <<>>
    /\ output_obj = NoObj

\* lines 28-49 and 52: the input is read; with records, the pool gets every
\* record submitted (workers > 1) or the loop starts (else)
Load ==
    /\ main_pc = "start"
    /\ IF ~args.input_exists
       THEN main_pc' = "exited" /\ exit_status' = 1 /\ fut' = fut
       ELSE IF Len(records) = 0
       THEN main_pc' = "exited" /\ exit_status' = 2 /\ fut' = fut
       ELSE main_pc' = "loop" /\ exit_status' = exit_status
            /\ fut' = [i \in 1..Len(records) |-> Pending]
    /\ UNCHANGED <<args, records, results, errors>>
    /\ UNCHANGED pipeVars

\* a call starts: in the pool when a worker thread is free, queued calls first in
\* first out; in the loop of lines 61-63 when every earlier record is recorded
Start(i) ==
    /\ main_pc = "loop"
    /\ fut[i].st = "pending"
    /\ \A j \in 1..(i - 1) : fut[j].st # "pending"
    /\ IF Pooled
       THEN Cardinality(InFlight) < args.workers
       ELSE \A j \in 1..(i - 1) : fut[j].collected
    /\ fut' = [fut EXCEPT ![i].st = "running"]
    /\ UNCHANGED <<args, records, results, errors, main_pc, exit_status>>
    /\ UNCHANGED pipeVars

\* call_gpt5_compute_payroll lines 278-281 up to the loop of resolve_missing
Preflight(i) ==
    /\ main_pc = "loop"
    /\ fut[i].st = "running"
    /\ LET d == DetectMissing(EnrichRegionConfig(records[i].obj))
       IN  fut' = [fut EXCEPT ![i] =
              IF ~records[i].schema_ok
              THEN [@ EXCEPT !.st = "raised", !.exc = "input_schema"]
              ELSE IF Len(d.missing) = 0
              THEN [@ EXCEPT !.st = "ready", !.enriched = d.payload]
              ELSE IF args.missing_policy = "fail"
              THEN [@ EXCEPT !.st = "raised", !.exc = "missing", !.enriched = d.payload,
                             !.missing = d.missing]
              ELSE [@ EXCEPT !.st = "resolving", !.enriched = d.payload,
                             !.missing = d.missing]]
    /\ UNCHANGED <<args, records, results, errors, main_pc, exit_status>>
    /\ UNCHANGED pipeVars

\* resolve_missing lines 240-272 in call i: one gap; under ask the thread is
\* inside input() until the console answers
Resolve(i) ==
    /\ main_pc = "loop"
    /\ fut[i].st = "resolving"
    /\ \E line \in (IF args.missing_policy = "ask" THEN ConsoleLines ELSE {""}) :
          LET f == fut[i]
              r == ResolveStep(f.enriched, f.missing[f.idx + 1], args.missing_policy, line)
          IN  fut' = [fut EXCEPT ![i] =
                 IF r.status # "ok"
                 THEN [@ EXCEPT !.st = "raised", !.exc = r.status]
                 ELSE [@ EXCEPT !.enriched = r.payload, !.idx = f.idx + 1,
                                !.warnings = f.warnings \o r.warnings,
                                !.st = IF f.idx + 1 = Len(f.missing)
                                       THEN "ready" ELSE "resolving"]]
    /\ UNCHANGED <<args, records, results, errors, main_pc, exit_status>>
    /\ UNCHANGED pipeVars

\* the outcome of lines 303-318 on resp.output `out`
Outcome(out, warnings) ==
    LET r == ExtractOutput(out)
    IN  IF ~r.ok THEN [exc |-> "json", res |-> NoObj]
        ELSE IF r.obj = NoObj THEN [exc |-> "extract", res |-> NoObj]
        ELSE IF ~ResultSchemaOk(r.obj) THEN [exc |-> "result_schema", res |-> NoObj]
        ELSE [exc |-> "", res |-> Annotate(r.obj, warnings)]

\* call_gpt5_compute_payroll lines 283-318 in call i
Remote(i) ==
    /\ main_pc = "loop"
    /\ fut[i].st = "ready"
    /\ \/ \E out \in remote_outputs :
             LET o == Outcome(out, fut[i].warnings)
             IN  fut' = [fut EXCEPT ![i].st = IF o.exc = "" THEN "returned" ELSE "raised",
                                    ![i].exc = o.exc, ![i].res = o.res]
       \/ fut' = [fut EXCEPT ![i].st = "raised", ![i].exc = "remote"]
    /\ UNCHANGED <<args, records, results, errors, main_pc, exit_status>>
    /\ UNCHANGED pipeVars

\* faulty variant: no try/except, the call's exception ends main
CollectUncaught(i) ==
    /\ main_pc = "loop"
    /\ Done(i)
    /\ ~fut[i].collected
    /\ fut' = [fut EXCEPT ![i].collected = TRUE]
    /\ IF fut[i].st = "returned"
       THEN /\ results' = Append(results, [index |-> i, res |-> fut[i].res])
            /\ main_pc' = main_pc /\ exit_status' = exit_status
       ELSE /\ results' = results
            /\ main_pc' = "exited" /\ exit_status' = 1
    /\ UNCHANGED <<args, records, errors>>
    /\ UNCHANGED pipeVars

\* lines 53-59 and 62-66: the call's result or exception is recorded
Collect(i) ==
    /\ main_pc = "loop"
    /\ Done(i)
    /\ ~fut[i].collected
    /\ fut' = [fut EXCEPT ![i].collected = TRUE]
    /\ IF fut[i].st = "returned"
       THEN /\ results' = Append(results, [index |-> i, res |-> fut[i].res])
            /\ errors' = errors
       ELSE /\ errors' = Append(errors, [index |-> i, error |-> fut[i].exc])
            /\ results' = results
    /\ UNCHANGED <<args, records, main_pc, exit_status>>
    /\ UNCHANGED pipeVars

\* lines 68-86: the outputs are written; exit 3 when there are errors
Finish ==
    /\ main_pc = "loop"
    /\ \A i \in Indexes : fut[i].collected
    /\ main_pc' = "exited"
    /\ exit_status' = IF Len(errors) > 0 THEN 3 ELSE 0
    /\ UNCHANGED <<args, records, fut, results, errors>>
    /\ UNCHANGED pipeVars

BatchNext ==
    \/ Load
    \/ \E i \in Indexes : Start(i)
    \/ \E i \in Indexes : Preflight(i)
    \/ \E i \in Indexes : Resolve(i)
    \/ \E i \in Indexes : Remote(i)
    \/ \E i \in Indexes : Collect(i)
    \/ Finish

BatchSpec == BatchInit /\ [][BatchNext]_vars

----------------------------------------------------------------------------
(* Properties *)

\* a field holds a value: the key is there and is not None
IsSet(v) == v.k \notin {"absent", "null"}

\* the value a document holds at a dotted path
AtPath(d, path) == d[Split(path)[1]][Split(path)[2]]

\* the number of positions of seq that hold x
Count(x, seq) == Cardinality({k \in 1..Len(seq) : seq[k] = x})

\* the raw document has Plus Convenio among its allowances and not among its variables
PlusCase ==
    /\ HasPlusConvenio(input_payload.collective_agreement.allowances)
    /\ ~HasPlusConvenio(input_payload.compensation.variables)

\* C1 (Completeness): once resolve_missing has returned under default or ask,
\* detect_missing finds no gap in the resolved document.
C1_Completeness ==
    (pc = "resolved" /\ missing_policy \in {"default", "ask"})
        => Len(DetectMissing(enriched).missing) = 0

\* C2 (Validate again before dispatch): every document handed to the remote
\* service has passed the input schema twice, as raw input and after resolution.
C2_ValidatedTwice == Len(sent) > 0 => validations = 2

\* C3 (Fail-fast): with a non-empty gap list and policy fail, resolve_missing
\* raises: the document equals its pre-resolution copy, there is no warning, and
\* the error names every gap path of the list exactly once and nothing else.
C3_FailFast ==
    (missing_policy = "fail" /\ Len(missing) > 0 /\ pc # "detected")
        => /\ pc = "error"
           /\ error.kind = "missing"
           /\ enriched = pre_copy
           /\ preflight_warnings = <<>>
           /\ Len(error.names) = Len(missing)
           /\ \A j \in 1..Len(missing) : Count(missing[j].path, error.names) = 1

C3_Witness ==
    /\ pc = "error"
    /\ error.kind = "missing"
    /\ missing_policy = "fail"
    /\ Len(missing) = 7
    /\ enriched = pre_copy
    /\ enriched # input_payload

\* C4 (No dispatch on failure): a document is sent only after the input validation
\* passed and resolve_missing returned without error; under policy fail with at
\* least one gap nothing is ever sent and the call ends with the missing-data error.
C4_NoDispatchOnFailure ==
    /\ Len(sent) > 0 =>
          /\ schema_ok
          /\ validations >= 1
          /\ idx = Len(missing)
          /\ missing_policy = "fail" => Len(missing) = 0
          /\ error.kind \notin {"input_schema", "missing", "mandatory", "parse"}
    /\ pc = "error" /\ error.kind \in {"input_schema", "missing", "mandatory", "parse"}
          => Len(sent) = 0
    /\ (missing_policy = "fail" /\ Len(missing) > 0 /\ pc # "detected")
          => Len(sent) = 0 /\ pc = "error" /\ error.kind = "missing"

C4_Witness ==
    /\ missing_policy = "fail"
    /\ pc = "error"
    /\ error.kind = "missing"
    /\ Len(missing) = 1
    /\ validations = 1
    /\ Len(sent) = 0

\* the payload of the first output_text part of the first message item of
\* `output` (from item i on) that holds such a part; 0 when there is none
RECURSIVE FirstPayloadId(_, _)
FirstPayloadId(output, i) ==
    IF i > Len(output) THEN 0
    ELSE IF output[i].type = "message" /\ FirstTextPart(output[i].content) # 0
    THEN PartPayload(output[i].content[FirstTextPart(output[i].content)]).obj.id
    ELSE FirstPayloadId(output, i + 1)

\* C5 (First-payload extraction): the object taken as the result is the payload of
\* the first output_text part of the first message item that holds one; without
\* such an item the call fails with the extraction error.
C5_FirstPayload ==
    /\ pc = "extracted" => output_obj.id = FirstPayloadId(resp_output, 1)
    /\ (pc = "error" /\ error.kind = "extract") => FirstPayloadId(resp_output, 1) = 0

\* C6 (Detector soundness): a gap is reported only for a field the document does
\* not hold; a field set to 0, 0.0 or "" counts as set.
C6_DetectorSound ==
    pc = "detected" =>
        \A j \in 1..Len(missing) :
            LET path == missing[j].path
            IN  IF path = "compensation.plus_convenio_amount" THEN TRUE
                ELSE IF path = "company.atep_tariff_pct"
                THEN ~IsSet(enriched.company.cnae) /\ ~IsSet(enriched.company.atep_tariff_pct)
                ELSE ~IsSet(AtPath(enriched, path))

\* the number of entries results and errors hold for record i
Recorded(i) ==
    Cardinality({k \in 1..Len(results) : results[k].index = i})
    + Cardinality({k \in 1..Len(errors) : errors[k].index = i})

\* C7 (Batch error isolation): every record is processed once and ends in exactly
\* one of results and errors, whatever happens to the others; main never gets
\* stuck, and it exits with status 3 exactly when a record failed.
C7_ErrorIsolation ==
    /\ \A i \in Indexes : main_pc # "start" =>
          /\ Recorded(i) <= 1
          /\ Recorded(i) = 1 <=> fut[i].collected
          /\ fut[i].collected => Done(i)
          /\ \A k \in 1..Len(results) : results[k].index = i => fut[i].st = "returned"
          /\ \A k \in 1..Len(errors) : errors[k].index = i => fut[i].st = "raised"
    /\ main_pc # "exited" => ENABLED BatchNext
    /\ (main_pc = "exited" /\ args.input_exists /\ Len(records) > 0) =>
          /\ \A i \in Indexes : Recorded(i) = 1
          /\ Len(results) + Len(errors) = Len(records)
          /\ exit_status \in {0, 3}
          /\ exit_status = 3 <=> \E i \in Indexes : fut[i].st = "raised"

C7_Witness ==
    /\ main_pc = "exited"
    /\ exit_status = 3
    /\ Pooled
    /\ Len(errors) = 1
    /\ Len(results) = 1
    /\ errors[1].index = 1
    /\ results[1].index = 2

\* call i is inside the console prompt of resolve_missing
InPrompt(i) == args.missing_policy = "ask" /\ fut[i].st = "resolving"

\* C8 (No concurrent prompting): no two calls of a batch run are inside the
\* console prompt at the same time.
C8_NoConcurrentPrompt == Cardinality({i \in Indexes : InPrompt(i)}) <= 1

\* C9 (Enrichment notes field), as claimed: the enriched document always has a
\* notes field on region_config.
C9_NotesAlways ==
    pc = "enriched" =>
        enriched.region_config.present /\ enriched.region_config.notes # Absent

\* C9, amended: with a non-empty region_config.ccaa the enriched document has a
\* notes field, "" when the input had none and the input's otherwise; without one
\* the document is returned as an unchanged copy.
C9_NotesWhenRegion ==
    pc = "enriched" =>
        IF Truthy(input_payload.region_config.ccaa)
        THEN /\ enriched.region_config.present
             /\ enriched.region_config.notes =
                   (IF input_payload.region_config.notes = Absent
                    THEN Str("") ELSE input_payload.region_config.notes)
        ELSE enriched = input_payload

C9_Witness ==
    /\ pc = "enriched"
    /\ Truthy(input_payload.region_config.ccaa)
    /\ input_payload.region_config.notes = Absent
    /\ enriched.region_config.notes = Str("")

\* C10 (Special-case routing): with Plus Convenio (any casing) among the allowances
\* and not among the variables, detect_missing reports exactly one gap at
\* compensation.plus_convenio_amount, first in the list; resolved under default it
\* appends one item Plus Convenio (taxable, contributory, C02, amount 0.0) to
\* compensation.variables and writes nothing at the literal path.
C10_PlusConvenio ==
    PlusCase =>
        /\ pc = "detected" =>
              /\ Count("compensation.plus_convenio_amount", Paths(missing)) = 1
              /\ missing[1].path = "compensation.plus_convenio_amount"
        /\ (missing_policy = "default" /\ pc \in {"resolving", "resolved"} /\ idx >= 1) =>
              /\ enriched.compensation.variables =
                    Append(input_payload.compensation.variables,
                           [name |-> Str("Plus Convenio"), amount |-> Num(0),
                            taxable |-> Bool(TRUE), contributory |-> Bool(TRUE),
                            cra_code |-> Str("C02")])
              /\ enriched.compensation.plus_convenio_amount = Absent

C10_Witness ==
    /\ PlusCase
    /\ missing_policy = "default"
    /\ pc = "resolved"
    /\ input_payload.collective_agreement.allowances[1].name = Str("PLUS CONVENIO")
    /\ Len(input_payload.compensation.variables) = 1
    /\ Len(enriched.compensation.variables) = 2

====
